---- MODULE Spec2Model ----
(***************************************************************************)
(* Model of minigrep (src/src/lib.rs, src/src/main.rs).                    *)
(*                                                                         *)
(* A string is a sequence of characters; a character is a one-element      *)
(* name ("a", "A", "SIGMA" for U+03A3, "sigma" for U+03C3, "final_sigma"   *)
(* for U+03C2, "'" for the apostrophe, "LF" for U+000A, "CR" for U+000D).  *)
(*                                                                         *)
(* Two specifications:                                                     *)
(*   SpecSearch  the two pure search functions applied to every query and  *)
(*               every contents within the bounds;                         *)
(*   Spec        one execution of main: Config::new, then run (the file    *)
(*               read, the search, one println! per matching line), then   *)
(*               the process exit.                                         *)
(***************************************************************************)
EXTENDS Naturals, Sequences, FiniteSets

VARIABLES
    pc,           \* position of the execution
    args,         \* Spec: the process arguments, program name first
    env,          \* Spec: the state of the variable CASE_INSENSITIVE
    config,       \* Spec: what Config::new returned
    read_result,  \* Spec: what fs::read_to_string returned in run
    results,      \* Spec: the vector of matching lines in run
    printed,      \* Spec: how many of results the loop of run has printed
    run_result,   \* Spec: what run returned
    stdout,       \* Spec: the lines written to standard output
    stderr,       \* Spec: the lines written to standard error
    file_reads,   \* Spec: number of file accesses so far
    exit_code,    \* Spec: the exit status of the process
    query,        \* SpecSearch: the query handed to the search functions
    contents,     \* SpecSearch: the contents handed to the search functions
    res_cs,       \* SpecSearch: what search returned
    res_ci        \* SpecSearch: what search_case_insensitive returned

vars == <<pc, args, env, config, read_result, results, printed, run_result,
          stdout, stderr, file_reads, exit_code, query, contents, res_cs, res_ci>>

mainVars == <<args, env, config, read_result, results, printed, run_result,
              stdout, stderr, file_reads, exit_code>>

searchVars == <<query, contents, res_cs, res_ci>>

(***************************************************************************)
(* Bounds.                                                                 *)
(***************************************************************************)
MaxContentLen == 3
MaxQueryLen == 2
MaxArgs == 3

None == [tag |-> "None"]

LF == "LF"
CR == "CR"

Alphabet == {"a", "A", "SIGMA", "'", LF, CR}

Strings(n) == UNION {[1..k -> Alphabet] : k \in 0..n}

(***************************************************************************)
(* str::lines as used in search and search_case_insensitive: the text is   *)
(* cut after every LF (split_inclusive), and each piece loses its final LF *)
(* and then, only if it had the LF, a CR before it.  A final piece without *)
(* LF is a line as it stands; the empty text has no lines.                 *)
(***************************************************************************)
IndexOf(s, c) ==
    IF \E i \in 1..Len(s) : s[i] = c
    THEN CHOOSE i \in 1..Len(s) : s[i] = c /\ \A j \in 1..(i - 1) : s[j] # c
    ELSE 0

RECURSIVE SplitInclusive(_)
SplitInclusive(s) ==
    IF s = <<>> THEN <<>>
    ELSE LET i == IndexOf(s, LF)
         IN IF i = 0 THEN <<s>>
            ELSE <<SubSeq(s, 1, i)>> \o SplitInclusive(SubSeq(s, i + 1, Len(s)))

StripLineEnding(piece) ==
    IF piece = <<>> \/ piece[Len(piece)] # LF THEN piece
    ELSE LET l == SubSeq(piece, 1, Len(piece) - 1)
         IN IF l = <<>> \/ l[Len(l)] # CR THEN l
            ELSE SubSeq(l, 1, Len(l) - 1)

Lines(s) ==
    LET pieces == SplitInclusive(s)
    IN [i \in 1..Len(pieces) |-> StripLineEnding(pieces[i])]

(***************************************************************************)
(* str::contains with a string pattern: needle occurs in haystack as a     *)
(* contiguous run of characters.                                           *)
(***************************************************************************)
Contains(haystack, needle) ==
    \E i \in 0..Len(haystack) :
        /\ i + Len(needle) <= Len(haystack)
        /\ SubSeq(haystack, i + 1, i + Len(needle)) = needle

(***************************************************************************)
(* str::to_lowercase.  Every character maps to its lowercase form, except  *)
(* SIGMA, which maps to final_sigma when it ends a word (a cased letter    *)
(* before it, skipping case-ignorable characters, and none after it) and   *)
(* to sigma otherwise.                                                     *)
(***************************************************************************)
Cased(c) == c \in {"a", "A", "SIGMA", "sigma", "final_sigma"}

CaseIgnorable(c) == c \in {"'"}

RECURSIVE case_ignorable_then_cased(_)
case_ignorable_then_cased(s) ==
    IF s = <<>> THEN FALSE
    ELSE IF CaseIgnorable(Head(s)) THEN case_ignorable_then_cased(Tail(s))
    ELSE Cased(Head(s))

Reverse(s) == [i \in 1..Len(s) |-> s[Len(s) + 1 - i]]

map_uppercase_sigma(from, i) ==
    LET is_word_final ==
            /\ case_ignorable_then_cased(Reverse(SubSeq(from, 1, i - 1)))
            /\ ~case_ignorable_then_cased(SubSeq(from, i + 1, Len(from)))
    IN IF is_word_final THEN <<"final_sigma">> ELSE <<"sigma">>

to_lower(c) == IF c = "A" THEN <<"a">> ELSE <<c>>

RECURSIVE ToLowercaseFrom(_, _)
ToLowercaseFrom(s, i) ==
    IF i > Len(s) THEN <<>>
    ELSE (IF s[i] = "SIGMA" THEN map_uppercase_sigma(s, i) ELSE to_lower(s[i]))
         \o ToLowercaseFrom(s, i + 1)

ToLowercase(s) == ToLowercaseFrom(s, 1)

(***************************************************************************)
(* search and search_case_insensitive.                                     *)
(***************************************************************************)
\* Mutant: the line must start with the query instead of containing it.
search_starts_with(q, c) ==
    SelectSeq(Lines(c), LAMBDA line :
        Len(q) <= Len(line) /\ SubSeq(line, 1, Len(q)) = q)

search(q, c) == SelectSeq(Lines(c), LAMBDA line : Contains(line, q))

\* Mutant: the query is compared as given, not lowercased.
search_case_insensitive_raw_query(q, c) ==
    SelectSeq(Lines(c), LAMBDA line : Contains(ToLowercase(line), q))

search_case_insensitive(q, c) ==
    LET lq == ToLowercase(q)
    IN SelectSeq(Lines(c), LAMBDA line : Contains(ToLowercase(line), lq))

(***************************************************************************)
(* SpecSearch: the search functions on every query and contents.           *)
(***************************************************************************)
InitSearch ==
    /\ pc = "search"
    /\ query \in Strings(MaxQueryLen)
    /\ contents \in Strings(MaxContentLen)
    /\ res_cs = None
    /\ res_ci = None
    /\ args = <<>> /\ env = None /\ config = None /\ read_result = None
    /\ results = <<>> /\ printed = 0 /\ run_result = None
    /\ stdout = <<>> /\ stderr = <<>> /\ file_reads = 0 /\ exit_code = None

CallSearch ==
    /\ pc = "search"
    /\ res_cs = None
    /\ res_cs' = [tag |-> "Some", lines |-> search(query, contents)]
    /\ UNCHANGED <<pc, query, contents, res_ci>>
    /\ UNCHANGED mainVars

CallSearchCaseInsensitive ==
    /\ pc = "search"
    /\ res_ci = None
    /\ res_ci' = [tag |-> "Some", lines |-> search_case_insensitive(query, contents)]
    /\ UNCHANGED <<pc, query, contents, res_cs>>
    /\ UNCHANGED mainVars

NextSearch == CallSearch \/ CallSearchCaseInsensitive

SpecSearch == InitSearch /\ [][NextSearch]_vars

(***************************************************************************)
(* Spec: one execution of main.                                            *)
(*                                                                         *)
(* Inputs: the argument strings, the state of CASE_INSENSITIVE in the      *)
(* environment, and what the file system answers to the one read.          *)
(*                                                                         *)
(* main.rs passes &args where Config::new takes an Iterator<Item = String>;*)
(* the model hands Config::new the arguments in order, which is what its   *)
(* signature and its tests take.  Arguments are valid Unicode strings      *)
(* (env::args() panics on others before Config::new is called) and writes  *)
(* to standard output succeed (println! panics when they do not).          *)
(***************************************************************************)
ArgStrings == {<<>>, <<"a">>, <<"A">>}

ArgLists == UNION {[1..k -> ArgStrings] : k \in 0..MaxArgs}

InvalidUnicode == "<not valid unicode>"

EnvValues == {"", "true", InvalidUnicode}

EnvStates == {[set |-> FALSE]} \cup {[set |-> TRUE, value |-> v] : v \in EnvValues}

FileContents ==
    { <<>>,
      <<"A">>,
      <<"a", LF, "A", "a", CR, LF, "A", LF>>,
      <<"A", "a", LF, LF, "a">> }

ReadErrors == {"NotFound", "PermissionDenied", "InvalidData"}

Ok(v) == [tag |-> "Ok", value |-> v]
Err(e) == [tag |-> "Err", err |-> e]

(***************************************************************************)
(* std::env::var: Err(NotPresent) when the variable is unset,              *)
(* Err(NotUnicode) when it is set to a value that is not valid Unicode,    *)
(* Ok(value) otherwise.                                                    *)
(***************************************************************************)
env_var(e) ==
    IF ~e.set THEN Err("NotPresent")
    ELSE IF e.value = InvalidUnicode THEN Err("NotUnicode")
    ELSE Ok(e.value)

(***************************************************************************)
(* Iterator::next on the argument iterator.                                *)
(***************************************************************************)
IterNext(it) ==
    IF it = <<>> THEN [item |-> None, rest |-> <<>>]
    ELSE [item |-> [tag |-> "Some", value |-> Head(it)], rest |-> Tail(it)]

MissingQueryMsg == <<"Didn't", "get", "a", "query", "string">>
MissingFileNameMsg == <<"Didn't", "get", "a", "file", "name">>

\* Mutant: the first argument is not discarded.
ConfigNew_keeps_first(a, e) ==
    LET n1 == IterNext(a)
        n2 == IterNext(n1.rest)
    IN IF n1.item = None THEN Err(MissingQueryMsg)
       ELSE IF n2.item = None THEN Err(MissingFileNameMsg)
       ELSE Ok([query |-> n1.item.value,
                filename |-> n2.item.value,
                case_sensitive |-> env_var(e).tag = "Err"])

\* Mutant: the file name is taken before the query.
ConfigNew_swapped(a, e) ==
    LET n0 == IterNext(a)
        n1 == IterNext(n0.rest)
        n2 == IterNext(n1.rest)
    IN IF n1.item = None THEN Err(MissingQueryMsg)
       ELSE IF n2.item = None THEN Err(MissingFileNameMsg)
       ELSE Ok([query |-> n2.item.value,
                filename |-> n1.item.value,
                case_sensitive |-> env_var(e).tag = "Err"])

\* Mutant: one generic message for fewer than three arguments.
ConfigNew_generic_message(a, e) ==
    IF Len(a) < 3 THEN Err(<<"not", "enough", "arguments">>)
    ELSE Ok([query |-> a[2],
             filename |-> a[3],
             case_sensitive |-> env_var(e).tag = "Err"])

(***************************************************************************)
(* Config::new.                                                            *)
(***************************************************************************)
ConfigNew(a, e) ==
    LET n0 == IterNext(a)
        n1 == IterNext(n0.rest)
        n2 == IterNext(n1.rest)
    IN IF n1.item = None THEN Err(MissingQueryMsg)
       ELSE IF n2.item = None THEN Err(MissingFileNameMsg)
       ELSE Ok([query |-> n1.item.value,
                filename |-> n2.item.value,
                case_sensitive |-> env_var(e).tag = "Err"])

(***************************************************************************)
(* Display of the error run returns (an io::Error in a Box<dyn Error>).    *)
(***************************************************************************)
ErrorDisplay(e) ==
    CASE e = "NotFound" -> <<"No such file or directory (os error 2)">>
      [] e = "PermissionDenied" -> <<"Permission denied (os error 13)">>
      [] e = "InvalidData" -> <<"stream did not contain valid UTF-8">>

ParseDiagnostic(err) == <<"Problem", "parsing", "arguments:">> \o err
AppDiagnostic(e) == <<"Application", "error:">> \o ErrorDisplay(e)

Init ==
    /\ pc = "main"
    /\ args \in ArgLists
    /\ env \in EnvStates
    /\ config = None
    /\ read_result = None
    /\ results = <<>>
    /\ printed = 0
    /\ run_result = None
    /\ stdout = <<>>
    /\ stderr = <<>>
    /\ file_reads = 0
    /\ exit_code = None
    /\ query = <<>> /\ contents = <<>> /\ res_cs = None /\ res_ci = None

\* main: let config = Config::new(args)
MainConfigNew ==
    /\ pc = "main"
    /\ config' = ConfigNew(args, env)
    /\ pc' = "config_returned"
    /\ UNCHANGED <<args, env, read_result, results, printed, run_result,
                   stdout, stderr, file_reads, exit_code>>
    /\ UNCHANGED searchVars

\* main: the unwrap_or_else closure: println!, process::exit(1)
MainParseError ==
    /\ pc = "config_returned"
    /\ config.tag = "Err"
    /\ stdout' = Append(stdout, ParseDiagnostic(config.err))
    /\ exit_code' = 1
    /\ pc' = "exited"
    /\ UNCHANGED <<args, env, config, read_result, results, printed, run_result,
                   stderr, file_reads>>
    /\ UNCHANGED searchVars

\* Mutant: run reports every failed read as a missing file.
RunReadToString_generic_error ==
    /\ pc = "config_returned"
    /\ config.tag = "Ok"
    /\ file_reads' = file_reads + 1
    /\ \/ /\ \E e \in ReadErrors :
                /\ config.value.filename = <<>> => e = "NotFound"
                /\ read_result' = Err(e)
                /\ run_result' = Err("NotFound")
          /\ pc' = "run_returned"
       \/ /\ config.value.filename # <<>>
          /\ \E c \in FileContents : read_result' = Ok(c)
          /\ run_result' = run_result
          /\ pc' = "run_search"
    /\ UNCHANGED <<args, env, config, results, printed, stdout, stderr, exit_code>>
    /\ UNCHANGED searchVars

\* run: let contents = fs::read_to_string(config.filename)?
\* The read of the empty path fails; any other path may hold any contents or fail.
RunReadToString ==
    /\ pc = "config_returned"
    /\ config.tag = "Ok"
    /\ file_reads' = file_reads + 1
    /\ \/ /\ \E e \in ReadErrors :
                /\ config.value.filename = <<>> => e = "NotFound"
                /\ read_result' = Err(e)
                /\ run_result' = Err(e)
          /\ pc' = "run_returned"
       \/ /\ config.value.filename # <<>>
          /\ \E c \in FileContents : read_result' = Ok(c)
          /\ run_result' = run_result
          /\ pc' = "run_search"
    /\ UNCHANGED <<args, env, config, results, printed, stdout, stderr, exit_code>>
    /\ UNCHANGED searchVars

\* run: let results = if config.case_sensitive { search } else { search_case_insensitive }
RunSearch ==
    /\ pc = "run_search"
    /\ results' = IF config.value.case_sensitive
                  THEN search(config.value.query, read_result.value)
                  ELSE search_case_insensitive(config.value.query, read_result.value)
    /\ pc' = "run_print"
    /\ UNCHANGED <<args, env, config, read_result, printed, run_result,
                   stdout, stderr, file_reads, exit_code>>
    /\ UNCHANGED searchVars

\* run: one iteration of for line in results { println!("{}", line) }
RunPrintln ==
    /\ pc = "run_print"
    /\ printed < Len(results)
    /\ stdout' = Append(stdout, results[printed + 1])
    /\ printed' = printed + 1
    /\ UNCHANGED <<pc, args, env, config, read_result, results, run_result,
                   stderr, file_reads, exit_code>>
    /\ UNCHANGED searchVars

\* run: Ok(())
RunReturnOk ==
    /\ pc = "run_print"
    /\ printed = Len(results)
    /\ run_result' = Ok(<<>>)
    /\ pc' = "run_returned"
    /\ UNCHANGED <<args, env, config, read_result, results, printed,
                   stdout, stderr, file_reads, exit_code>>
    /\ UNCHANGED searchVars

\* Mutant: the diagnostic is printed but process::exit(1) is forgotten.
MainAppError_no_exit ==
    /\ pc = "run_returned"
    /\ run_result.tag = "Err"
    /\ stdout' = Append(stdout, AppDiagnostic(run_result.err))
    /\ exit_code' = 0
    /\ pc' = "exited"
    /\ UNCHANGED <<args, env, config, read_result, results, printed, run_result,
                   stderr, file_reads>>
    /\ UNCHANGED searchVars

\* main: if let Err(e) = run(config) { println!; process::exit(1) }
MainAppError ==
    /\ pc = "run_returned"
    /\ run_result.tag = "Err"
    /\ stdout' = Append(stdout, AppDiagnostic(run_result.err))
    /\ exit_code' = 1
    /\ pc' = "exited"
    /\ UNCHANGED <<args, env, config, read_result, results, printed, run_result,
                   stderr, file_reads>>
    /\ UNCHANGED searchVars

\* main returns: the process exits with status 0
MainReturn ==
    /\ pc = "run_returned"
    /\ run_result.tag = "Ok"
    /\ exit_code' = 0
    /\ pc' = "exited"
    /\ UNCHANGED <<args, env, config, read_result, results, printed, run_result,
                   stdout, stderr, file_reads>>
    /\ UNCHANGED searchVars

Next ==
    \/ MainConfigNew
    \/ MainParseError
    \/ RunReadToString
    \/ RunSearch
    \/ RunPrintln
    \/ RunReturnOk
    \/ MainAppError
    \/ MainReturn

Spec == Init /\ [][Next]_vars

\* The program is one sequential thread: every step that can be taken is taken.
SpecFair == Spec /\ WF_vars(Next)

(***************************************************************************)
(* Properties.                                                             *)
(***************************************************************************)

\* needle occurs in line: line is some prefix, then needle, then some suffix.
OccursIn(line, needle) ==
    \E i \in 0..Len(line) : \E j \in i..Len(line) :
        SubSeq(line, 1, i) \o needle \o SubSeq(line, j + 1, Len(line)) = line

\* r is the subsequence of ls at exactly the positions in M, in order:
\* the k-th smallest position of M is the k-th element of r.
IsSelection(r, ls, M) ==
    /\ Len(r) = Cardinality(M)
    /\ \A i \in M : r[Cardinality({j \in M : j <= i})] = ls[i]

\* C1: when the query occurs in at least one line of the contents, search
\* returns exactly the lines that contain the query, in file order, each
\* matching line once, with the text it has in the contents.
C1_SearchExact ==
    LET ls == Lines(contents)
        M == {i \in 1..Len(ls) : OccursIn(ls[i], query)}
    IN (res_cs # None /\ M # {}) =>
          /\ IsSelection(res_cs.lines, ls, M)
          /\ \A k \in 1..Len(res_cs.lines) : OccursIn(contents, res_cs.lines[k])

\* C1 witness: a non-empty query matches some lines of the contents and not others.
C1_Witness ==
    /\ res_cs # None
    /\ query # <<>>
    /\ Len(res_cs.lines) >= 1
    /\ Len(res_cs.lines) < Len(Lines(contents))

\* C2: search_case_insensitive returns exactly the lines whose lowercase form
\* contains the lowercase form of the query, in file order, each with its
\* original text.
C2_InsensitiveExact ==
    LET ls == Lines(contents)
        M == {i \in 1..Len(ls) : OccursIn(ToLowercase(ls[i]), ToLowercase(query))}
    IN res_ci # None =>
          /\ IsSelection(res_ci.lines, ls, M)
          /\ \A k \in 1..Len(res_ci.lines) : OccursIn(contents, res_ci.lines[k])

\* C2 witness: a query with an uppercase letter returns a line that differs from
\* its lowercase form and leaves another line out.
C2_Witness ==
    /\ res_ci # None
    /\ ToLowercase(query) # query
    /\ Len(res_ci.lines) >= 1
    /\ Len(res_ci.lines) < Len(Lines(contents))
    /\ \E k \in 1..Len(res_ci.lines) : ToLowercase(res_ci.lines[k]) # res_ci.lines[k]

\* C3 (as claimed): every line search returns is also returned by
\* search_case_insensitive for the same query and contents.
C3_InsensitiveSuperset ==
    (res_cs # None /\ res_ci # None) =>
        \A k \in 1..Len(res_cs.lines) :
            \E j \in 1..Len(res_ci.lines) : res_ci.lines[j] = res_cs.lines[k]

\* C4: Config::new discards the first argument; without a second argument it
\* fails with the missing-query message, with a second but no third with the
\* missing-file-name message, and otherwise returns query = second argument and
\* filename = third argument.
C4_ConfigNew ==
    config # None =>
        /\ Len(args) <= 1 => config = Err(<<"Didn't", "get", "a", "query", "string">>)
        /\ Len(args) = 2 => config = Err(<<"Didn't", "get", "a", "file", "name">>)
        /\ Len(args) >= 3 =>
              /\ config.tag = "Ok"
              /\ config.value.query = args[2]
              /\ config.value.filename = args[3]

\* C4 witness: Config::new succeeded on arguments whose query and file name differ
\* from each other and from the program name.
C4_Witness ==
    /\ config # None
    /\ config.tag = "Ok"
    /\ Len(args) = 3
    /\ args[1] # args[2]
    /\ args[2] # args[3]

\* C5 (as claimed): case_sensitive is false exactly when CASE_INSENSITIVE is set,
\* whatever its value.
C5_CaseSensitiveIffUnset ==
    (config # None /\ config.tag = "Ok") =>
        (config.value.case_sensitive = FALSE <=> env.set)

\* C6 (as claimed): a successfully constructed Config has a non-empty query and a
\* non-empty file name.
C6_NonEmptyFields ==
    (config # None /\ config.tag = "Ok") =>
        /\ config.value.query # <<>>
        /\ config.value.filename # <<>>

\* C6 (amended): a successfully constructed Config holds the second and third
\* arguments as given, so each field is empty exactly when its argument is the
\* empty string.
C6_FieldsEmptyIffArgsEmpty ==
    (config # None /\ config.tag = "Ok") =>
        /\ Len(args) >= 3
        /\ config.value.query = <<>> <=> args[2] = <<>>
        /\ config.value.filename = <<>> <=> args[3] = <<>>

\* C6 witness: Config::new succeeded with an empty query and a non-empty file name.
C6_Witness ==
    /\ config # None
    /\ config.tag = "Ok"
    /\ config.value.query = <<>>
    /\ config.value.filename # <<>>

IsDiagnostic(line) ==
    \/ /\ Len(line) > 3
       /\ SubSeq(line, 1, 3) = <<"Problem", "parsing", "arguments:">>
    \/ /\ Len(line) > 2
       /\ SubSeq(line, 1, 2) = <<"Application", "error:">>

\* C7 (as claimed): a failing run writes its one-line diagnostic to standard
\* error and nothing to standard output.
C7_DiagnosticOnStderr ==
    (pc = "exited" /\ exit_code = 1) =>
        /\ stdout = <<>>
        /\ Len(stderr) = 1
        /\ IsDiagnostic(stderr[1])

Succeeded(r) == r # None /\ r.tag = "Ok"
Failed(r) == r # None /\ r.tag = "Err"

C9_NoOutputOnReadError ==
    /\ (read_result # None /\ read_result.tag = "Err") =>
          /\ run_result = read_result
          /\ printed = 0
          /\ pc = "run_returned" => stdout = <<>>
          /\ \A k \in 1..Len(stdout) : IsDiagnostic(stdout[k])
    /\ Failed(run_result) => (read_result # None /\ read_result.tag = "Err")
    /\ printed > 0 => (read_result # None /\ read_result.tag = "Ok")

\* C9 witness: run has returned the error of a file that is not valid UTF-8.
C9_Witness ==
    /\ pc = "run_returned"
    /\ run_result = Err("InvalidData")
    /\ config.value.filename # <<>>

====
